---- MODULE Spec2Model ----
(***************************************************************************)
(* A model of trpc-uwebsockets: the WebSocket handler (applyWSHandler)     *)
(* and, further down, the HTTP exchange adapted by fetchCompat.ts.         *)
(*                                                                         *)
(* JavaScript runs one callback to completion at a time.  A step of the    *)
(* model is one such run: a uWebSockets.js callback (upgrade, open,        *)
(* message, close), a timer, a stream event, or the continuation of an     *)
(* async function after an await.  Continuations that are ready wait in    *)
(* the microtask queue, in FIFO order, and the queue is drained before the *)
(* next callback runs.  The envelopes of one physical message are handled  *)
(* one after the other within the message callback; nothing else runs in   *)
(* between (cur holds the envelopes still to be handled).                  *)
(*                                                                         *)
(* uWebSockets.js invalidates a WebSocket when its close event has been    *)
(* delivered: send() and end() on it throw.  The model records such calls  *)
(* in misuse and lets the exception propagate as JavaScript does.          *)
(***************************************************************************)
EXTENDS Integers, Sequences, FiniteSets, TLC

\* ------------------------------------------------------------- bounds
MaxReqs == 2      \* envelopes and undecodable messages received, all together
MaxEmit == 1      \* values the streams emit after subscribe() has returned
MaxBroadcast == 2 \* calls of broadcastReconnectNotification
MaxChunks == 3    \* chunks of a request body the transport delivers
MaxRespChunks == 2  \* chunks a response body yields
MaxWritable == 1  \* writable signals of the transport

\* ---------------------------------------------------------- constants
Conns == {"c1", "c2"}
Ids == {1, 2}
NullId == 0       \* the JSON null id
NoSub == 0        \* clientSubscriptions.get(id) === undefined
\* handleRequest tells a mutation from a query nowhere (both are "not a
\* subscription"): "query" stands for either.
Methods == {"query", "subscription", "subscription.stop"}
\* The id is checked before the method is read: one null-id envelope stands
\* for all of them.
Envelope == [id : Ids, method : Methods] \cup [id : {NullId}, method : {"query"}]

Null == -1        \* opts.maxBodySize: null
\* The byte lengths of body chunks and the configured maximum sizes.
ChunkLens == {0, 1, 2}
MaxBodySizes == {Null, 0, 2}
\* "GET" stands for GET and HEAD, "POST" for every other method.
HttpMethods == {"GET", "POST"}
SendFns == {"uWsSendResponse", "uWsSendResponseStreamed",
            "uWsSendResponseStreamed_broken"}
\* The calls a send function makes on the native exchange.
SendCalls == {"writeStatus", "writeHeader", "write", "end", "endWithoutBody"}
\* Header names, in the order in which Headers iterates (sorted).
HeaderNames == <<"content-type", "set-cookie", "vary">>
H(k, v) == [key |-> k, value |-> v]
\* The header lists of the responses: in the order of the append calls.
HeaderLists ==
    {<<H("content-type", "vi/test"), H("set-cookie", "one=1"),
       H("set-cookie", "two=2")>>,
     <<H("vary", "a"), H("content-type", "x"), H("vary", "b")>>}

VARIABLES
    httpMethod,           \* the method of the HTTP exchange being adapted
    maxBodySize,          \* opts.maxBodySize
    transport,            \* the native exchange: none, open, aborted, ended
    onAbortedHandler,     \* the handler res.onAborted holds (the last one set)
    aborted,              \* res.aborted
    signalAborted,        \* ac.signal.aborted
    size,                 \* createBody: bytes received
    hasClosed,            \* createBody: hasClosed
    body,                 \* the ReadableStream: none, readable, closing
                          \* (close requested, chunks still queued), closed,
                          \* errored, cancelled
    received,             \* the chunks the transport has passed to onData
    queue,                \* chunks enqueued and not read yet
    consumed,             \* chunks the consumer has read
    late,                 \* controller calls made on a stream that is not
                          \* readable any more
    discarded,            \* calls made on the exchange after abort or end
    sendFn,               \* the send function called for the exchange
    sendPc,               \* none, awaitText, awaitRead, returned, threw
    hasBody,              \* fetchRes.body is not null
    respHeaders,          \* fetchRes.headers: the header list of the Response
    buffer,               \* getPostBody: the buffer of onData
    result,               \* getPostBody: the promise it returns
    threw,                \* getPostBody: the chunks whose callback threw
    respRead,             \* chunks of the response body read so far
    wire,                 \* the calls made on the open exchange, in order
    requestFinished,      \* uWsSendResponseStreamed_broken: requestFinished
    onWritable,           \* the chunk the onWritable handler holds, or 0
    nwritable,            \* writable signals of the transport
    allowed,              \* the connections this run may open
    phase,                \* per connection: none, upgraded, open, closed
    ctxPromise,           \* data.ctxPromise: pending, fulfilled, rejected
    ctxCalls,             \* calls of createContext made for the connection
    ctx,                  \* data.ctx: undefined or CTX
    ctxWaiters,           \* reactions registered on a pending ctxPromise
    clientSubscriptions,  \* data.clientSubscriptions: id -> request or NoSub
    sent,                 \* the responses sent on the socket: per id, in order
    misuse,               \* send/end calls made on the closed socket
    timer,                \* the grace timer of a failed context
    allClients,           \* the broadcast set, in insertion order
    reqs,                 \* every envelope handed to handleRequest
    microtasks,           \* the microtask queue
    cur,                  \* the message being handled
    nmsg,                 \* physical messages received
    emitted,              \* values emitted after subscribe() returned
    msgCaught,            \* messages whose Promise.all has rejected
    nbroadcast            \* calls of broadcastReconnectNotification

exchangeVars == <<httpMethod, maxBodySize, transport, onAbortedHandler,
                  aborted, signalAborted, discarded>>

bodyVars == <<size, hasClosed, body, received, queue, consumed, late>>

sendVars == <<sendFn, sendPc, hasBody, respHeaders, respRead, wire,
              requestFinished, onWritable, nwritable>>

postVars == <<buffer, result, threw>>
httpVars == <<exchangeVars, bodyVars, sendVars, postVars>>

wsVars == <<allowed, phase, ctxPromise, ctxCalls, ctx, ctxWaiters,
            clientSubscriptions,
            sent, misuse, timer, allClients, reqs, microtasks, cur, nmsg,
            emitted, msgCaught, nbroadcast>>

vars == <<wsVars, httpVars>>

NoCur == [conn |-> "none", msg |-> 0]

\* No HTTP exchange is being adapted.
\* `undefined`, and the string a buffer of bytes decodes to.
Undefined == <<"undefined", <<>>>>
BufferToString(bytes) == <<"string", bytes>>

\* `let buffer: Buffer`: undefined until the first assignment.
NoBuffer == <<>>

\* The promise of getPostBody: not made, pending, or settled with a value.
NoResult == [state |-> "none", ok |-> FALSE, data |-> Undefined, error |-> ""]
PendingResult == [NoResult EXCEPT !.state = "pending"]
OkResult(d) == [state |-> "settled", ok |-> TRUE, data |-> d, error |-> ""]
ErrResult(code) ==
    [state |-> "settled", ok |-> FALSE, data |-> Undefined, error |-> code]

NoExchange ==
    /\ httpMethod = "none"
    /\ maxBodySize = Null
    /\ transport = "none"
    /\ onAbortedHandler = "none"
    /\ aborted = FALSE
    /\ signalAborted = FALSE
    /\ size = 0
    /\ hasClosed = FALSE
    /\ body = "none"
    /\ received = <<>>
    /\ queue = <<>>
    /\ consumed = <<>>
    /\ late = {}
    /\ discarded = {}
    /\ sendFn = "none"
    /\ sendPc = "none"
    /\ hasBody = FALSE
    /\ respHeaders = <<>>
    /\ buffer = NoBuffer
    /\ result = NoResult
    /\ threw = {}
    /\ respRead = 0
    /\ wire = <<>>
    /\ requestFinished = FALSE
    /\ onWritable = 0
    /\ nwritable = 0


\* No callback is running and no continuation is ready.
Idle == microtasks = <<>> /\ cur = NoCur

Resp(id, type, code, r, src) ==
    [id |-> id, type |-> type, code |-> code, req |-> r, src |-> src]

Task(k, c, n) == [k |-> k, c |-> c, n |-> n]

Closed(c) == phase[c] = "closed"

InitFor(cs) ==
    /\ allowed = cs
    /\ phase = [c \in Conns |-> "none"]
    /\ ctxPromise = [c \in Conns |-> "none"]
    /\ ctxCalls = [c \in Conns |-> 0]
    /\ ctx = [c \in Conns |-> "undefined"]
    /\ ctxWaiters = [c \in Conns |-> <<>>]
    /\ clientSubscriptions = [c \in Conns |-> [i \in Ids |-> NoSub]]
    /\ sent = [c \in Conns |-> [i \in Ids \cup {NullId} |-> <<>>]]
    /\ misuse = [c \in Conns |-> {}]
    /\ timer = [c \in Conns |-> "none"]
    /\ allClients = <<>>
    /\ reqs = <<>>
    /\ microtasks = <<>>
    /\ cur = NoCur
    /\ nmsg = 0
    /\ emitted = 0
    /\ msgCaught = {}
    /\ nbroadcast = 0

Init == InitFor({"c1"}) /\ NoExchange

\* ---------------------------------------------------- upgrade and open

\* upgrade: the context factory is called and its promise stored; the
\* promise may already be settled when the handler returns.
Upgrade(c) ==
    /\ Idle
    /\ c \in allowed
    /\ phase[c] = "none"
    /\ phase' = [phase EXCEPT ![c] = "upgraded"]
    /\ \E p \in {"pending", "fulfilled", "rejected"} :
          ctxPromise' = [ctxPromise EXCEPT ![c] = p]
    /\ ctxCalls' = [ctxCalls EXCEPT ![c] = @ + 1]
    /\ UNCHANGED <<httpVars, nbroadcast, allowed, ctx, ctxWaiters, clientSubscriptions, sent, misuse,
                   timer, allClients, reqs, microtasks, cur, nmsg, emitted, msgCaught>>

\* `await data.ctxPromise` by task t: on a pending promise the reaction is
\* registered behind the earlier ones, on a settled one it is queued at once.
AwaitCtxPromise(c, t, q) ==
    IF ctxPromise[c] = "pending"
    THEN /\ ctxWaiters' = [ctxWaiters EXCEPT ![c] = Append(@, t)]
         /\ microtasks' = q
    ELSE /\ microtasks' = Append(q, t)
         /\ UNCHANGED ctxWaiters

\* open, up to the await in createContextAsync.
\* (mutant) an open handler that calls createContext again.
OpenCreatesContext(c) ==
    /\ Idle
    /\ phase[c] = "upgraded"
    /\ phase' = [phase EXCEPT ![c] = "open"]
    /\ AwaitCtxPromise(c, Task("open", c, 0), microtasks)
    /\ ctxCalls' = [ctxCalls EXCEPT ![c] = @ + 1]
    /\ UNCHANGED <<httpVars, nbroadcast, allowed, ctxPromise, ctx,
                   clientSubscriptions, sent, misuse, timer, allClients, reqs,
                   cur, nmsg, emitted, msgCaught>>

Open(c) ==
    /\ Idle
    /\ phase[c] = "upgraded"
    /\ phase' = [phase EXCEPT ![c] = "open"]
    /\ AwaitCtxPromise(c, Task("open", c, 0), microtasks)
    /\ UNCHANGED <<httpVars, ctxCalls, nbroadcast, allowed, ctxPromise, ctx, clientSubscriptions, sent, misuse,
                   timer, allClients, reqs, cur, nmsg, emitted, msgCaught>>

\* The context factory's promise settles; its reactions are queued in the
\* order they were registered.
SettleCtx(c) ==
    /\ Idle
    /\ ctxPromise[c] = "pending"
    /\ \E p \in {"fulfilled", "rejected"} :
          ctxPromise' = [ctxPromise EXCEPT ![c] = p]
    /\ microtasks' = ctxWaiters[c]
    /\ ctxWaiters' = [ctxWaiters EXCEPT ![c] = <<>>]
    /\ UNCHANGED <<httpVars, ctxCalls, nbroadcast, allowed, phase, ctx, clientSubscriptions, sent, misuse,
                   timer, allClients, reqs, cur, nmsg, emitted, msgCaught>>

\* createContextAsync after its await, with q the rest of the queue.
RunOpenCtx(c, q) ==
    IF ctxPromise[c] = "rejected"
    THEN IF Closed(c)
         THEN \* respond throws: open rejects, no timer, no allClients.add
              /\ misuse' = [misuse EXCEPT ![c] = @ \cup {"send"}]
              /\ microtasks' = q
              /\ UNCHANGED <<ctx, sent, timer>>
         ELSE /\ sent' = [sent EXCEPT ![c][NullId] =
                    Append(@, Resp(NullId, "error", "CONTEXT", 0, "open"))]
              /\ timer' = [timer EXCEPT ![c] = "armed"]
              /\ microtasks' = Append(q, Task("add", c, 0))
              /\ UNCHANGED <<ctx, misuse>>
    ELSE /\ ctx' = [ctx EXCEPT ![c] = "CTX"]
         /\ microtasks' = Append(q, Task("add", c, 0))
         /\ UNCHANGED <<sent, misuse, timer>>

\* open after `await createContextAsync()`.
RunOpenAdd(c) ==
    allClients' = IF \E i \in DOMAIN allClients : allClients[i] = c
                  THEN allClients ELSE Append(allClients, c)

\* ------------------------------------------------------------- close

Unsubscribed(rec) ==
    [rec EXCEPT !.unsub = @ + 1,
                !.stream = IF @ = "live" THEN "cancelled" ELSE @]

\* The close handler.
CloseHandler(c) ==
    /\ phase' = [phase EXCEPT ![c] = "closed"]
    /\ reqs' = [r \in DOMAIN reqs |->
                  IF \E i \in Ids : clientSubscriptions[c][i] = r
                  THEN Unsubscribed(reqs[r]) ELSE reqs[r]]
    /\ clientSubscriptions' = [clientSubscriptions EXCEPT ![c] = [i \in Ids |-> NoSub]]
    /\ allClients' = SelectSeq(allClients, LAMBDA x : x # c)

\* The transport reports the connection closed.
Close(c) ==
    /\ Idle
    /\ phase[c] = "open"
    /\ CloseHandler(c)
    /\ UNCHANGED <<httpVars, ctxCalls, nbroadcast, allowed, ctxPromise, ctx, ctxWaiters, sent, misuse, timer,
                   microtasks, cur, nmsg, emitted, msgCaught>>

\* The grace timer of a failed context fires: client.end().
GraceTimer(c) ==
    /\ Idle
    /\ timer[c] = "armed"
    /\ timer' = [timer EXCEPT ![c] = "fired"]
    /\ IF Closed(c)
       THEN /\ misuse' = [misuse EXCEPT ![c] = @ \cup {"end"}]
            /\ UNCHANGED <<phase, reqs, clientSubscriptions, allClients>>
       ELSE /\ CloseHandler(c)
            /\ UNCHANGED misuse
    /\ UNCHANGED <<httpVars, ctxCalls, nbroadcast, allowed, ctxPromise, ctx, ctxWaiters, sent, microtasks, cur,
                   nmsg, emitted, msgCaught>>

\* ---------------------------------------------------------- messages

NewReq(c, m, e) ==
    [conn |-> c, msg |-> m, id |-> e.id, method |-> e.method,
     pc |-> "awaitCtx",        \* awaitCtx, awaitCall, done, rejected
     result |-> "",            \* the branch handleRequest took
     ctxArg |-> "none",        \* the ctx passed to callProcedure
     stream |-> "none",        \* none, live, cancelled, done, aborted
     unsub |-> 0,              \* calls of the stream's unsubscribe()
     registered |-> FALSE]     \* was put into clientSubscriptions

\* What the clients have sent so far: envelopes and undecodable messages.
ParseFailures(c) == Len(SelectSeq(sent[c][NullId], LAMBDA x : x.src = "parse"))

Received == Len(reqs) + ParseFailures("c1") + ParseFailures("c2")

\* message: the raw message decodes into a batch of envelopes, which the
\* callback hands to handleRequest one after the other.
Message(c) ==
    /\ Idle
    /\ phase[c] = "open"
    /\ Received < MaxReqs
    /\ cur' = [conn |-> c, msg |-> nmsg + 1]
    /\ nmsg' = nmsg + 1
    /\ UNCHANGED <<httpVars, ctxCalls, nbroadcast, allowed, phase, ctxPromise, ctx, ctxWaiters,
                   clientSubscriptions, sent, misuse, timer, allClients, reqs,
                   microtasks, emitted, msgCaught>>

ParseError(src) == Resp(NullId, "error", "PARSE_ERROR", 0, src)

\* (mutant) a message callback that decodes and dispatches envelope by
\* envelope: the envelopes in front of the undecodable one are handled.
MessageBadDispatches(c) ==
    /\ Idle
    /\ phase[c] = "open"
    /\ Received < MaxReqs
    /\ nmsg' = nmsg + 1
    /\ cur' = [conn |-> c, msg |-> nmsg + 1]
    /\ sent' = [sent EXCEPT ![c][NullId] = Append(@, ParseError("parse"))]
    /\ UNCHANGED <<httpVars, ctxCalls, nbroadcast, allowed, phase, ctxPromise, ctx, ctxWaiters,
                   clientSubscriptions, misuse, timer, allClients, reqs,
                   microtasks, emitted, msgCaught>>

\* message: JSON.parse or parseTRPCMessage throws; no envelope is handled.
MessageBad(c) ==
    /\ Idle
    /\ phase[c] = "open"
    /\ Received < MaxReqs
    /\ nmsg' = nmsg + 1
    /\ sent' = [sent EXCEPT ![c][NullId] = Append(@, ParseError("parse"))]
    /\ UNCHANGED <<httpVars, ctxCalls, nbroadcast, allowed, phase, ctxPromise, ctx, ctxWaiters,
                   clientSubscriptions, misuse, timer, allClients, reqs,
                   microtasks, cur, emitted, msgCaught>>

\* stopSubscription: sub.unsubscribe(), then the `stopped` response.
StopUnsubscribe(rs, s) == [rs EXCEPT ![s] = Unsubscribed(@)]

StoppedResp(id, r) == Resp(id, "stopped", "", r, "handler")

\* handleRequest with a null id: the async function throws at once.
RejectNullId(c, m, e) ==
    /\ reqs' = Append(reqs, [NewReq(c, m, e) EXCEPT !.pc = "rejected",
                                                    !.result = "nullid"])
    /\ UNCHANGED <<clientSubscriptions, sent, ctxWaiters, microtasks>>

\* (mutant) subscription.stop that leaves the mapping in place.
SubscriptionStopKeepsMapping(c, m, e, r) ==
    LET sub == clientSubscriptions[c][e.id]
        found == sub # NoSub
    IN  /\ reqs' = Append(IF found THEN StopUnsubscribe(reqs, sub) ELSE reqs,
                          [NewReq(c, m, e) EXCEPT
                              !.pc = "done",
                              !.result = IF found THEN "stopped" ELSE "noop"])
        /\ sent' = [sent EXCEPT ![c][e.id] =
                      IF found THEN Append(@, StoppedResp(e.id, r)) ELSE @]
        /\ UNCHANGED <<clientSubscriptions, ctxWaiters, microtasks>>

\* handleRequest for method subscription.stop, with r the envelope's number.
SubscriptionStop(c, m, e, r) ==
    LET sub == clientSubscriptions[c][e.id]
        found == sub # NoSub
    IN  /\ reqs' = Append(IF found THEN StopUnsubscribe(reqs, sub) ELSE reqs,
                          [NewReq(c, m, e) EXCEPT
                              !.pc = "done",
                              !.result = IF found THEN "stopped" ELSE "noop"])
        /\ sent' = [sent EXCEPT ![c][e.id] =
                      IF found THEN Append(@, StoppedResp(e.id, r)) ELSE @]
        /\ clientSubscriptions' = [clientSubscriptions EXCEPT ![c][e.id] = NoSub]
        /\ UNCHANGED <<ctxWaiters, microtasks>>

\* (mutant) handleRequest that does not await data.ctxPromise before it
\* calls callProcedure with data.ctx.
HandleRequestStartNoAwait(c, m, e, r) ==
    /\ reqs' = Append(reqs, [NewReq(c, m, e) EXCEPT !.pc = "awaitCall",
                                                    !.ctxArg = ctx[c]])
    /\ UNCHANGED <<clientSubscriptions, sent, ctxWaiters, microtasks>>

\* handleRequest for a call, up to `await data.ctxPromise`.
HandleRequestStart(c, m, e, r) ==
    /\ reqs' = Append(reqs, NewReq(c, m, e))
    /\ AwaitCtxPromise(c, Task("req", c, r), microtasks)
    /\ UNCHANGED <<clientSubscriptions, sent>>

\* Request ids are opaque to the handler (it only compares them): the
\* client uses the smallest id it has not used yet when it takes a new one.
IdInOrder(c, id) ==
    \A j \in Ids : j < id => \E r \in DOMAIN reqs : reqs[r].conn = c /\ reqs[r].id = j

\* The message callback hands the next envelope of the batch to
\* handleRequest, which runs up to its first await.
HandleEnvelope(e) ==
    /\ cur # NoCur
    /\ IdInOrder(cur.conn, e.id)
    /\ \/ \A r \in DOMAIN reqs : reqs[r].msg # cur.msg
       \/ Received < MaxReqs
    /\ LET c == cur.conn
           m == cur.msg
           r == Len(reqs) + 1
       IN  IF e.id = NullId THEN RejectNullId(c, m, e)
           ELSE IF e.method = "subscription.stop" THEN SubscriptionStop(c, m, e, r)
           ELSE HandleRequestStart(c, m, e, r)
    /\ UNCHANGED <<httpVars, ctxCalls, nbroadcast, allowed, phase, ctxPromise, ctx, misuse, timer, allClients,
                   cur, nmsg, emitted, msgCaught>>

\* The batch is through: the message callback awaits Promise.all over its
\* handleRequest promises; one that is already rejected sends the callback
\* into its catch block.
PromiseAll ==
    /\ cur # NoCur
    /\ \E r \in DOMAIN reqs : reqs[r].msg = cur.msg
    /\ cur' = NoCur
    /\ IF \E r \in DOMAIN reqs : reqs[r].msg = cur.msg /\ reqs[r].pc = "rejected"
       THEN /\ msgCaught' = msgCaught \cup {cur.msg}
            /\ microtasks' = Append(microtasks, Task("catch", cur.conn, cur.msg))
       ELSE UNCHANGED <<msgCaught, microtasks>>
    /\ UNCHANGED <<httpVars, ctxCalls, nbroadcast, allowed, phase, ctxPromise, ctx, ctxWaiters,
                   clientSubscriptions, sent, misuse, timer, allClients, reqs,
                   nmsg, emitted>>

\* The catch block of the message callback.
RunMsgCatch(c, m) ==
    IF Closed(c)
    THEN /\ misuse' = [misuse EXCEPT ![c] = @ \cup {"send"}]
         /\ UNCHANGED sent
    ELSE /\ sent' = [sent EXCEPT ![c][NullId] = Append(@, ParseError("catch"))]
         /\ UNCHANGED misuse

\* ---------------------------------------------------- handleRequest

\* The promise of request r rejects: Promise.all of its message rejects,
\* once, and the message callback's catch block is queued.
AfterReject(q, c, m) ==
    IF m \in msgCaught THEN q ELSE Append(q, Task("catch", c, m))

ErrorResp(id, code, r) == Resp(id, "error", code, r, "handler")

\* (mutant) a catch block that swallows the error.
CatchBlockSilent(r, rs, pre, code, res, q) ==
    LET c == rs[r].conn
    IN  /\ sent' = [sent EXCEPT ![c][rs[r].id] = @ \o pre]
        /\ reqs' = [rs EXCEPT ![r].pc = "done", ![r].result = res]
        /\ microtasks' = q
        /\ UNCHANGED <<misuse, msgCaught>>

\* The catch block of handleRequest: the error response with the request's
\* id.  rs is reqs as the try block left it and pre the responses the try
\* block sent.  On a closed socket the first respond of the try block has
\* thrown already, and the one of the catch block throws again: the promise
\* rejects.
CatchBlock(r, rs, pre, code, res, q) ==
    LET c == rs[r].conn
        m == rs[r].msg
    IN  IF Closed(c)
        THEN /\ misuse' = [misuse EXCEPT ![c] = @ \cup {"send"}]
             /\ reqs' = [rs EXCEPT ![r].pc = "rejected", ![r].result = res]
             /\ microtasks' = AfterReject(q, c, m)
             /\ msgCaught' = msgCaught \cup {m}
             /\ UNCHANGED sent
        ELSE /\ sent' = [sent EXCEPT ![c][rs[r].id] =
                           (@ \o pre) \o <<ErrorResp(rs[r].id, code, r)>>]
             /\ reqs' = [rs EXCEPT ![r].pc = "done", ![r].result = res]
             /\ microtasks' = q
             /\ UNCHANGED <<misuse, msgCaught>>

\* (mutant) handleRequest that goes on to callProcedure although the
\* context promise rejected.
RunReqCtxIgnoresFailure(r, q) ==
    /\ reqs' = [reqs EXCEPT ![r].pc = "awaitCall", ![r].ctxArg = ctx[reqs[r].conn]]
    /\ microtasks' = q
    /\ UNCHANGED <<sent, misuse, msgCaught>>

\* handleRequest after `await data.ctxPromise`: a rejected promise throws
\* into the catch block, otherwise callProcedure is called with data.ctx.
RunReqCtx(r, q) ==
    LET c == reqs[r].conn
    IN  IF ctxPromise[c] = "rejected"
        THEN CatchBlock(r, reqs, <<>>, "CONTEXT", "ctxerr", q)
        ELSE /\ reqs' = [reqs EXCEPT ![r].pc = "awaitCall", ![r].ctxArg = ctx[c]]
             /\ microtasks' = q
             /\ UNCHANGED <<sent, misuse, msgCaught>>

\* A response sent by an observer callback of request r's stream.
StreamResp(id, ev, r) ==
    CASE ev = "next" -> <<Resp(id, "data", "", r, "stream")>>
      [] ev = "error" -> <<Resp(id, "error", "STREAM", r, "stream")>>
      [] ev = "complete" -> <<Resp(id, "stopped", "", r, "stream")>>
      [] OTHER -> <<>>

StreamAfter(ev) == IF ev \in {"error", "complete"} THEN "done" ELSE "live"

\* The subscription is registered and `started` sent.
Register(r, ev, q) ==
    LET c == reqs[r].conn
        id == reqs[r].id
        rs == [reqs EXCEPT ![r].stream = StreamAfter(ev), ![r].registered = TRUE]
    IN  /\ clientSubscriptions' = [clientSubscriptions EXCEPT ![c][id] = r]
        /\ IF Closed(c)
           THEN CatchBlock(r, rs, <<>>, "CLOSED", "started", q)
           ELSE /\ sent' = [sent EXCEPT ![c][id] =
                              (@ \o StreamResp(id, ev, r))
                                 \o <<Resp(id, "started", "", r, "handler")>>]
                /\ reqs' = [rs EXCEPT ![r].pc = "done", ![r].result = "started"]
                /\ microtasks' = q
                /\ UNCHANGED <<misuse, msgCaught>>

\* (mutant) a duplicate id that is not checked: the new subscription takes
\* the map entry of the old one.
DuplicateIdUnchecked(r, ev, q) == Register(r, ev, q)

\* (mutant) a duplicate id that unsubscribes the new subscription without
\* the `stopped` response of stopSubscription.
DuplicateIdSilent(r, ev, q) ==
    LET id == reqs[r].id
        rs == StopUnsubscribe([reqs EXCEPT ![r].stream = StreamAfter(ev)], r)
    IN  /\ CatchBlock(r, rs, StreamResp(id, ev, r), "BAD_REQUEST", "dup", q)
        /\ UNCHANGED clientSubscriptions

\* The duplicate-id branch: the subscription just created is stopped and
\* BAD_REQUEST thrown.
DuplicateId(r, ev, q) ==
    LET id == reqs[r].id
        rs == StopUnsubscribe([reqs EXCEPT ![r].stream = StreamAfter(ev)], r)
    IN  /\ CatchBlock(r, rs, StreamResp(id, ev, r) \o <<StoppedResp(id, r)>>,
                      "BAD_REQUEST", "dup", q)
        /\ UNCHANGED clientSubscriptions

\* observable.subscribe and what follows it.  ev is what the stream does
\* before subscribe() returns: nothing, one value, or a terminal event.
Subscribe(r, ev, q) ==
    LET c == reqs[r].conn
        id == reqs[r].id
    IN  IF Closed(c) /\ ev # "none"
        THEN \* the observer callback's respond throws out of subscribe()
             /\ CatchBlock(r, [reqs EXCEPT ![r].stream = "aborted"], <<>>,
                           "CLOSED", "threw", q)
             /\ UNCHANGED clientSubscriptions
        ELSE IF clientSubscriptions[c][id] # NoSub
             THEN DuplicateId(r, ev, q)
             ELSE Register(r, ev, q)

\* (mutant) handleRequest without the `return` of the non-subscription
\* branch: the result of a query is answered and then registered.
ContinueCallNoReturn(r, outcome, ev, q) ==
    LET c == reqs[r].conn
        id == reqs[r].id
    IN  IF outcome = "error"
        THEN /\ CatchBlock(r, reqs, <<>>, "PROCEDURE", "procerr", q)
             /\ UNCHANGED clientSubscriptions
        ELSE IF reqs[r].method # "subscription"
        THEN /\ IF Closed(c)
                THEN CatchBlock(r, reqs, <<>>, "CLOSED", "data", q)
                ELSE /\ sent' = [sent EXCEPT ![c][id] =
                                   Append(@, Resp(id, "data", "", r, "handler"))]
                     /\ reqs' = [reqs EXCEPT ![r].pc = "done", ![r].result = "data"]
                     /\ microtasks' = q
                     /\ UNCHANGED <<misuse, msgCaught>>
             /\ clientSubscriptions' = [clientSubscriptions EXCEPT ![c][id] = r]
        ELSE IF outcome = "value"
        THEN /\ CatchBlock(r, reqs, <<>>, "INTERNAL_SERVER_ERROR", "notobs", q)
             /\ UNCHANGED clientSubscriptions
        ELSE Subscribe(r, ev, q)

\* handleRequest after `await callProcedure(...)`.
ContinueCall(r, outcome, ev, q) ==
    LET c == reqs[r].conn
        id == reqs[r].id
    IN  IF outcome = "error"
        THEN /\ CatchBlock(r, reqs, <<>>, "PROCEDURE", "procerr", q)
             /\ UNCHANGED clientSubscriptions
        ELSE IF reqs[r].method # "subscription"
        THEN /\ IF Closed(c)
                THEN CatchBlock(r, reqs, <<>>, "CLOSED", "data", q)
                ELSE /\ sent' = [sent EXCEPT ![c][id] =
                                   Append(@, Resp(id, "data", "", r, "handler"))]
                     /\ reqs' = [reqs EXCEPT ![r].pc = "done", ![r].result = "data"]
                     /\ microtasks' = q
                     /\ UNCHANGED <<misuse, msgCaught>>
             /\ UNCHANGED clientSubscriptions
        ELSE IF outcome = "value"
        THEN /\ CatchBlock(r, reqs, <<>>, "INTERNAL_SERVER_ERROR", "notobs", q)
             /\ UNCHANGED clientSubscriptions
        ELSE Subscribe(r, ev, q)

Outcomes(r) ==
    IF reqs[r].method = "subscription"
    THEN {"value", "observable", "error"} ELSE {"value", "error"}

SyncEvents(r, outcome) ==
    IF reqs[r].method = "subscription" /\ outcome = "observable"
    THEN {"none", "next", "error", "complete"} ELSE {"none"}

\* callProcedure settles and handleRequest continues.
DispatchSettles(r) ==
    /\ Idle
    /\ r \in DOMAIN reqs
    /\ reqs[r].pc = "awaitCall"
    /\ \E outcome \in Outcomes(r) : \E ev \in SyncEvents(r, outcome) :
          ContinueCall(r, outcome, ev, microtasks)
    /\ UNCHANGED <<httpVars, ctxCalls, nbroadcast, allowed, phase, ctxPromise, ctx, ctxWaiters, timer,
                   allClients, cur, nmsg, emitted>>

\* A live stream emits after subscribe() has returned.  A terminal event
\* ends the stream; the map is not touched by the observer callbacks.
Emit(r, ev) ==
    LET c == reqs[r].conn
    IN  /\ Idle
        /\ reqs[r].stream = "live"
        /\ ev = "next" => emitted < MaxEmit
        /\ emitted' = IF ev = "next" THEN emitted + 1 ELSE emitted
        /\ reqs' = [reqs EXCEPT ![r].stream = StreamAfter(ev)]
        /\ IF Closed(c)
           THEN /\ misuse' = [misuse EXCEPT ![c] = @ \cup {"send"}]
                /\ UNCHANGED sent
           ELSE /\ sent' = [sent EXCEPT ![c][reqs[r].id] =
                              @ \o StreamResp(reqs[r].id, ev, r)]
                /\ UNCHANGED misuse
        /\ UNCHANGED <<httpVars, ctxCalls, nbroadcast, allowed, phase, ctxPromise, ctx, ctxWaiters,
                       clientSubscriptions, timer, allClients, microtasks, cur,
                       nmsg, msgCaught>>

\* ----------------------------------------------------------- broadcast

Reconnect == Resp(NullId, "reconnect", "", 0, "broadcast")

\* The clients forEach reaches: send() throws on the first closed one and
\* ends the iteration.
Reached ==
    {i \in DOMAIN allClients : \A j \in 1..i : ~Closed(allClients[j])}

\* broadcastReconnectNotification.
Broadcast ==
    /\ Idle
    /\ nbroadcast < MaxBroadcast
    /\ nbroadcast' = nbroadcast + 1
    /\ sent' = [c \in Conns |->
                  IF \E i \in Reached : allClients[i] = c
                  THEN [sent[c] EXCEPT ![NullId] = Append(@, Reconnect)]
                  ELSE sent[c]]
    /\ misuse' = [c \in Conns |->
                    IF \E i \in DOMAIN allClients :
                          /\ allClients[i] = c
                          /\ i \notin Reached
                          /\ i - 1 \in Reached \cup {0}
                    THEN misuse[c] \cup {"send"} ELSE misuse[c]]
    /\ UNCHANGED <<httpVars, ctxCalls, allowed, phase, ctxPromise, ctx, ctxWaiters,
                   clientSubscriptions, timer, allClients, reqs, microtasks,
                   cur, nmsg, emitted, msgCaught>>

\* ---------------------------------------------------------- microtasks

RunMicrotask ==
    /\ cur = NoCur
    /\ microtasks # <<>>
    /\ LET t == Head(microtasks)
           q == Tail(microtasks)
       IN  CASE t.k = "open" ->
                  /\ RunOpenCtx(t.c, q)
                  /\ UNCHANGED <<allClients, reqs, msgCaught, clientSubscriptions>>
             [] t.k = "add" ->
                  /\ RunOpenAdd(t.c)
                  /\ microtasks' = q
                  /\ UNCHANGED <<ctx, sent, misuse, timer, reqs, msgCaught,
                                 clientSubscriptions>>
             [] t.k = "req" ->
                  /\ RunReqCtx(t.n, q)
                  /\ UNCHANGED <<ctx, timer, allClients, clientSubscriptions>>
             [] t.k = "catch" ->
                  /\ RunMsgCatch(t.c, t.n)
                  /\ microtasks' = q
                  /\ UNCHANGED <<ctx, timer, allClients, reqs, msgCaught,
                                 clientSubscriptions>>
    /\ UNCHANGED <<httpVars, ctxCalls, nbroadcast, allowed, phase, ctxPromise, ctxWaiters, cur, nmsg, emitted>>

\* ------------------------------------------------------ specification

Next ==
    \/ \E c \in Conns : Upgrade(c)
    \/ \E c \in Conns : Open(c)
    \/ \E c \in Conns : SettleCtx(c)
    \/ \E c \in Conns : Message(c)
    \/ \E c \in Conns : MessageBad(c)
    \/ \E e \in Envelope : HandleEnvelope(e)
    \/ PromiseAll
    \/ RunMicrotask
    \/ \E r \in DOMAIN reqs : DispatchSettles(r)
    \/ \E r \in DOMAIN reqs : \E ev \in {"next", "error", "complete"} : Emit(r, ev)
    \/ \E c \in Conns : Close(c)
    \/ \E c \in Conns : GraceTimer(c)

Spec == Init /\ [][Next]_vars

\* Two connections and the broadcast, without messages.
InitBroadcast == InitFor(Conns) /\ NoExchange

NextBroadcast ==
    \/ \E c \in Conns : Upgrade(c)
    \/ \E c \in Conns : Open(c)
    \/ \E c \in Conns : SettleCtx(c)
    \/ RunMicrotask
    \/ \E c \in Conns : Close(c)
    \/ \E c \in Conns : GraceTimer(c)
    \/ Broadcast

SpecBroadcast == InitBroadcast /\ [][NextBroadcast]_vars

\* ===================================================================
\* The HTTP exchange (fetchCompat.ts)
\*
\* One exchange is adapted by uWsToRequest and answered by one of the send
\* functions.  The native exchange keeps one onAborted handler: a second
\* res.onAborted replaces the first.  It calls the handler when the client
\* disconnects and when res.close() is called, and from then on, as after
\* end(), every call on it throws.  The ReadableStream behaves as the
\* Streams standard says: close() and enqueue() throw once the stream is
\* closed, errored, cancelled or asked to close; error() then does nothing;
\* error() on a readable stream drops the chunks not read yet; cancel()
\* closes the stream before it calls the source's cancel.  The model keeps
\* which chunk is where, not the bytes.
\* ===================================================================

\* uWsToRequest: res.onAborted(onAbort), then for a method with a body
\* createBody, whose start() registers onData and res.onAborted(onEnd).
Adapt(m, max) ==
    /\ httpMethod = "none"
    /\ allowed = {}
    /\ httpMethod' = m
    /\ maxBodySize' = max
    /\ transport' = "open"
    /\ IF m = "POST"
       THEN /\ body' = "readable"
            /\ onAbortedHandler' = "onEnd"
       ELSE /\ body' = "none"
            /\ onAbortedHandler' = "onAbort"
    /\ UNCHANGED <<aborted, signalAborted, discarded, size, hasClosed,
                   received, queue, consumed, late, sendVars, postVars, wsVars>>

\* onEnd of createBody, run when the stream is in state b with q queued.
OnEnd(b, q) ==
    IF hasClosed
    THEN /\ body' = b
         /\ UNCHANGED <<hasClosed, late>>
    ELSE /\ hasClosed' = TRUE
         /\ IF b = "readable"
            THEN /\ body' = IF q = <<>> THEN "closed" ELSE "closing"
                 /\ UNCHANGED late
            ELSE \* controller.close() throws
                 /\ body' = b
                 /\ late' = late \cup {"close"}

\* `!opts.maxBodySize || size <= opts.maxBodySize`
WithinLimit(n) == maxBodySize = Null \/ maxBodySize = 0 \/ n <= maxBodySize

\* (mutant) onData that ends the stream on every last chunk without
\* enqueueing it.
OnDataEndsEarly(len, last) ==
    LET n == Len(received) + 1
    IN  /\ received' = Append(received, [len |-> len, last |-> last])
        /\ IF last
           THEN /\ OnEnd(body, queue)
                /\ UNCHANGED <<size, queue>>
           ELSE /\ size' = size + len
                /\ IF WithinLimit(size + len)
                   THEN IF body = "readable"
                        THEN /\ queue' = Append(queue, n)
                             /\ UNCHANGED <<hasClosed, body, late>>
                        ELSE /\ late' = late \cup {"enqueue"}
                             /\ UNCHANGED <<queue, hasClosed, body>>
                   ELSE /\ hasClosed' = TRUE
                        /\ IF body \in {"readable", "closing"}
                           THEN /\ body' = "errored"
                                /\ queue' = <<>>
                                /\ UNCHANGED late
                           ELSE /\ late' = late \cup {"error"}
                                /\ UNCHANGED <<body, queue>>

\* onData of createBody for a chunk of len bytes.
OnData(len, last) ==
    LET n == Len(received) + 1
    IN  /\ received' = Append(received, [len |-> len, last |-> last])
        /\ IF size = 0 /\ len = 0 /\ last
           THEN /\ OnEnd(body, queue)
                /\ UNCHANGED <<size, queue>>
           ELSE /\ size' = size + len
                /\ IF WithinLimit(size + len)
                   THEN IF body = "readable"
                        THEN /\ queue' = Append(queue, n)
                             /\ IF last
                                THEN OnEnd(body, Append(queue, n))
                                ELSE UNCHANGED <<hasClosed, body, late>>
                        ELSE \* controller.enqueue() throws
                             /\ late' = late \cup {"enqueue"}
                             /\ UNCHANGED <<queue, hasClosed, body>>
                   ELSE /\ hasClosed' = TRUE
                        /\ IF body \in {"readable", "closing"}
                           THEN /\ body' = "errored"
                                /\ queue' = <<>>
                                /\ UNCHANGED late
                           ELSE /\ late' = late \cup {"error"}
                                /\ UNCHANGED <<body, queue>>

\* The transport delivers a chunk of the request body.  An empty chunk is
\* the last one, and nothing follows the last one.
Data(len, last) ==
    /\ httpMethod = "POST"
    /\ transport = "open"
    /\ Len(received) < MaxChunks
    /\ received # <<>> => ~received[Len(received)].last
    /\ len = 0 => last
    /\ OnData(len, last)
    /\ UNCHANGED <<exchangeVars, consumed, sendVars, postVars, wsVars>>

\* The handler res.onAborted holds runs, the stream being in state b with
\* q queued.
RunOnAborted(b, q) ==
    CASE onAbortedHandler = "onAbort" ->
           /\ aborted' = TRUE
           /\ signalAborted' = TRUE
           /\ body' = b
           /\ UNCHANGED <<hasClosed, late, requestFinished>>
      [] onAbortedHandler = "onEnd" ->
           /\ OnEnd(b, q)
           /\ UNCHANGED <<aborted, signalAborted, requestFinished>>
      [] onAbortedHandler = "sendAborted" ->
           \* onAbortedOrFinishedResponse finds res.aborted set: no end()
           /\ aborted' = TRUE
           /\ requestFinished' = TRUE
           /\ body' = b
           /\ UNCHANGED <<signalAborted, hasClosed, late>>

\* The client disconnects.
TransportAbort ==
    /\ transport = "open"
    /\ transport' = "aborted"
    /\ RunOnAborted(body, queue)
    /\ UNCHANGED <<httpMethod, maxBodySize, onAbortedHandler, discarded, size,
                   received, queue, consumed, sendFn, sendPc, hasBody, respHeaders,
                   respRead, wire, onWritable, nwritable, postVars, wsVars>>

\* The consumer of the request body reads a chunk.
ConsumerRead ==
    /\ body \in {"readable", "closing"}
    /\ queue # <<>>
    /\ consumed' = Append(consumed, Head(queue))
    /\ queue' = Tail(queue)
    /\ body' = IF body = "closing" /\ Tail(queue) = <<>> THEN "closed" ELSE body
    /\ UNCHANGED <<exchangeVars, size, hasClosed, received, late, sendVars,
                   postVars, wsVars>>

\* The consumer cancels the request body: the stream is closed, then
\* cancel() of createBody calls res.close().
ConsumerCancel ==
    /\ body \in {"readable", "closing"}
    /\ queue' = <<>>
    /\ IF transport = "open"
       THEN /\ transport' = "aborted"
            /\ RunOnAborted("cancelled", <<>>)
            /\ UNCHANGED discarded
       ELSE /\ discarded' = discarded \cup {"close"}
            /\ body' = "cancelled"
            /\ UNCHANGED <<transport, aborted, signalAborted, hasClosed, late,
                           requestFinished>>
    /\ UNCHANGED <<httpMethod, maxBodySize, onAbortedHandler, size, received,
                   consumed, sendFn, sendPc, hasBody, respHeaders, respRead, wire,
                   onWritable, nwritable, postVars, wsVars>>

\* A call on the native exchange, with the chunk or header it passes.
Call(name, k) == [call |-> name, chunk |-> k]

\* The values of header k in the list h, in order.
Values(h, k) ==
    LET hs == SelectSeq(h, LAMBDA e : e.key = k)
    IN  [i \in DOMAIN hs |-> hs[i].value]

\* (mutant) an iteration that combines the values of set-cookie as it does
\* those of every other header.
EntriesCombined(h, k) ==
    IF Values(h, k) = <<>> THEN <<>> ELSE <<H(k, Values(h, k))>>

\* What headers.forEach passes for header k: the values of a repeated
\* header combined into one (joined with ", "), but every set-cookie value
\* by itself.
Entries(h, k) ==
    IF k = "set-cookie"
    THEN [i \in DOMAIN Values(h, k) |-> H(k, <<Values(h, k)[i]>>)]
    ELSE IF Values(h, k) = <<>> THEN <<>> ELSE <<H(k, Values(h, k))>>

\* fetchRes.headers.forEach: the headers sorted by name.
ForEach(h) ==
    (Entries(h, HeaderNames[1]) \o Entries(h, HeaderNames[2]))
        \o Entries(h, HeaderNames[3])

\* writeStatus and a writeHeader for every entry forEach passes.
HeaderCalls(h) ==
    <<Call("writeStatus", 0)>> \o
       [i \in DOMAIN ForEach(h) |-> Call("writeHeader", ForEach(h)[i])]

Headers == HeaderCalls(respHeaders)

\* A send function makes the calls cs on the native exchange and goes on
\* at pc; on an exchange that is aborted or ended the first call throws.
Native(cs, pc) ==
    IF transport = "open"
    THEN /\ wire' = wire \o cs
         /\ transport' = IF cs[Len(cs)].call \in {"end", "endWithoutBody"}
                         THEN "ended" ELSE "open"
         /\ sendPc' = pc
         /\ UNCHANGED discarded
    ELSE /\ discarded' = discarded \cup {cs[1].call}
         /\ sendPc' = "threw"
         /\ UNCHANGED <<wire, transport>>

Return ==
    /\ sendPc' = "returned"
    /\ UNCHANGED <<wire, transport, discarded>>

\* A send function is called and runs up to its first await.
SendStart(fn, hb, hs) ==
    /\ httpMethod # "none"
    /\ sendFn = "none"
    /\ sendFn' = fn
    /\ hasBody' = hb
    /\ respHeaders' = hs
    /\ CASE fn = "uWsSendResponse" ->
              /\ sendPc' = "awaitText"
              /\ UNCHANGED <<wire, transport, discarded, onAbortedHandler>>
         [] fn = "uWsSendResponseStreamed" ->
              /\ IF aborted THEN Return
                 ELSE IF hb THEN Native(HeaderCalls(hs), "awaitRead")
                 ELSE Native(HeaderCalls(hs) \o <<Call("end", 0)>>, "returned")
              /\ UNCHANGED onAbortedHandler
         [] fn = "uWsSendResponseStreamed_broken" ->
              IF aborted THEN Return /\ UNCHANGED onAbortedHandler
              ELSE IF hb
              THEN /\ Native(HeaderCalls(hs), "awaitRead")
                   /\ onAbortedHandler' = IF transport = "open"
                                          THEN "sendAborted" ELSE onAbortedHandler
              ELSE /\ Native(HeaderCalls(hs) \o <<Call("endWithoutBody", 0)>>, "returned")
                   /\ UNCHANGED onAbortedHandler
    /\ UNCHANGED <<httpMethod, maxBodySize, aborted, signalAborted, bodyVars,
                   respRead, requestFinished, onWritable, nwritable, postVars, wsVars>>

\* (mutant) uWsSendResponse without its check of res.aborted.
TextReadyUnchecked ==
    /\ sendPc = "awaitText"
    /\ Native(Headers \o <<Call("end", 0)>>, "returned")
    /\ UNCHANGED <<httpMethod, maxBodySize, onAbortedHandler, aborted,
                   signalAborted, bodyVars, sendFn, hasBody, respHeaders, respRead,
                   requestFinished, onWritable, nwritable, postVars, wsVars>>

\* uWsSendResponse after `await fetchRes.text()`.
TextReady ==
    /\ sendPc = "awaitText"
    /\ IF aborted THEN Return
       ELSE Native(Headers \o <<Call("end", 0)>>, "returned")
    /\ UNCHANGED <<httpMethod, maxBodySize, onAbortedHandler, aborted,
                   signalAborted, bodyVars, sendFn, hasBody, respHeaders, respRead,
                   requestFinished, onWritable, nwritable, postVars, wsVars>>

\* A streaming send function after `await reader.read()`: the reader is
\* done, or it yields the next chunk, whose write the transport accepts
\* (ok) or reports as backpressure.
ReadSettles(done, ok) ==
    /\ sendPc = "awaitRead"
    /\ ~done => respRead < MaxRespChunks
    /\ respRead' = IF done THEN respRead ELSE respRead + 1
    /\ IF sendFn = "uWsSendResponseStreamed"
       THEN /\ ok
            /\ IF aborted THEN Return
               ELSE IF done THEN Native(<<Call("end", 0)>>, "returned")
               ELSE Native(<<Call("write", respRead + 1)>>, "awaitRead")
            /\ UNCHANGED <<requestFinished, onWritable>>
       ELSE IF done
            THEN /\ ok
                 /\ requestFinished' = TRUE
                 /\ IF aborted THEN Return
                    ELSE Native(<<Call("end", 0)>>, "returned")
                 /\ UNCHANGED onWritable
            ELSE /\ IF aborted THEN ok /\ Return
                    ELSE Native(<<Call("write", respRead + 1)>>, "awaitRead")
                 /\ onWritable' = IF ~aborted /\ transport = "open" /\ ~ok
                                  THEN respRead + 1 ELSE onWritable
                 /\ UNCHANGED requestFinished
    /\ UNCHANGED <<httpMethod, maxBodySize, onAbortedHandler, aborted,
                   signalAborted, bodyVars, sendFn, hasBody, respHeaders, nwritable, postVars, wsVars>>

\* The transport signals writable: the onWritable handler writes the chunk
\* it holds.
Writable(ok) ==
    /\ transport = "open"
    /\ onWritable # 0
    /\ nwritable < MaxWritable
    /\ nwritable' = nwritable + 1
    /\ wire' = Append(wire, Call("write", onWritable))
    /\ onWritable' = IF ok THEN 0 ELSE onWritable
    /\ UNCHANGED <<exchangeVars, bodyVars, sendFn, sendPc, hasBody, respHeaders, respRead,
                   requestFinished, postVars, wsVars>>

InitHttp == InitFor({}) /\ NoExchange

NextHttp ==
    \/ \E m \in HttpMethods : \E max \in MaxBodySizes : Adapt(m, max)
    \/ \E len \in ChunkLens : \E last \in BOOLEAN : Data(len, last)
    \/ TransportAbort
    \/ ConsumerRead
    \/ ConsumerCancel
    \/ \E fn \in SendFns : \E hb \in BOOLEAN : \E hs \in HeaderLists :
          SendStart(fn, hb, hs)
    \/ TextReady
    \/ \E done \in BOOLEAN : \E ok \in BOOLEAN : ReadSettles(done, ok)
    \/ \E ok \in BOOLEAN : Writable(ok)

SpecHttp == InitHttp /\ [][NextHttp]_vars

\* The same with the scheduling the runtime guarantees: a continuation
\* that is ready runs.  `await fetchRes.text()` settles by itself; whether
\* the reader of a response body ever yields again, whether the client
\* disconnects or sends on, and what the consumer of the request body does
\* is up to the environment.
SpecHttpFair == SpecHttp /\ WF_vars(TextReady)

\* ------------------------------------------------------------------
\* getPostBody (utils.ts): the request body collected into one string.

\* (mutant) a resolve that replaces the value of a settled promise.
ResolveAgain(p, v) == v

\* resolve(v) on the promise p: only the first call settles it.
Resolve(p, v) == IF p.state = "pending" THEN v ELSE p

\* The bytes of the n-th chunk: len bytes that name the chunk.
Bytes(n, len) == [j \in 1..len |-> n]

\* getPostBody(method, res, maxBodySize): the executor of the promise.  For
\* GET it resolves and goes on to register the callbacks all the same.
GetPostBody(m, max) ==
    /\ httpMethod = "none"
    /\ allowed = {}
    /\ httpMethod' = m
    /\ maxBodySize' = max
    /\ transport' = "open"
    /\ buffer' = NoBuffer
    /\ result' = IF m = "GET"
                 THEN Resolve(PendingResult, OkResult(Undefined))
                 ELSE PendingResult
    /\ UNCHANGED <<onAbortedHandler, aborted, signalAborted, discarded,
                   bodyVars, sendVars, threw, wsVars>>

\* The callback given to res.onData, called with the n-th chunk.
OnPostData(n, len, last) ==
    LET chunk == Bytes(n, len)
        limited == maxBodySize # Null /\ maxBodySize # 0
    IN  IF buffer = NoBuffer /\ last
        THEN /\ result' = Resolve(result, OkResult(BufferToString(chunk)))
             /\ UNCHANGED <<buffer, threw>>
        ELSE IF limited /\ buffer = NoBuffer
        THEN \* buffer.length of undefined: a TypeError
             /\ threw' = threw \cup {n}
             /\ UNCHANGED <<buffer, result>>
        ELSE LET r1 == IF limited /\ Len(buffer[1]) >= maxBodySize
                       THEN Resolve(result, ErrResult("PAYLOAD_TOO_LARGE"))
                       ELSE result
                 b == IF buffer # NoBuffer THEN buffer[1] \o chunk ELSE chunk
             IN  /\ buffer' = <<b>>
                 /\ result' = IF last THEN Resolve(r1, OkResult(BufferToString(b)))
                                      ELSE r1
                 /\ UNCHANGED threw

\* The transport delivers the next chunk of the request body.
PostData(len, last) ==
    /\ result.state # "none"
    /\ transport = "open"
    /\ Len(received) < MaxChunks
    /\ received # <<>> => ~received[Len(received)].last
    /\ len = 0 => last
    /\ received' = Append(received, [len |-> len, last |-> last])
    /\ OnPostData(Len(received) + 1, len, last)
    /\ UNCHANGED <<exchangeVars, size, hasClosed, body, queue, consumed, late,
                   sendVars, wsVars>>

\* The client goes away: the callback given to res.onAborted.
PostAbort ==
    /\ result.state # "none"
    /\ transport = "open"
    /\ transport' = "aborted"
    /\ aborted' = TRUE
    /\ result' = Resolve(result, ErrResult("CLIENT_CLOSED_REQUEST"))
    /\ UNCHANGED <<httpMethod, maxBodySize, onAbortedHandler, signalAborted,
                   discarded, bodyVars, sendVars, buffer, threw, wsVars>>

InitPostBody == InitFor({}) /\ NoExchange

NextPostBody ==
    \/ \E m \in HttpMethods : \E max \in MaxBodySizes : GetPostBody(m, max)
    \/ \E len \in ChunkLens : \E last \in BOOLEAN : PostData(len, last)
    \/ PostAbort

SpecPostBody == InitPostBody /\ [][NextPostBody]_vars


\* ===================================================================
\* Properties
\* ===================================================================

\* The responses request r caused, in the order they were sent.
RespBy(r) ==
    SelectSeq(sent[reqs[r].conn][reqs[r].id], LAMBDA x : x.req = r)

IsCall(r) == reqs[r].id # NullId /\ reqs[r].method # "subscription.stop"

\* The streams of (c, id) that are subscribed and neither cancelled nor
\* terminated.
LiveStreams(c, id) ==
    {r \in DOMAIN reqs :
        reqs[r].conn = c /\ reqs[r].id = id /\ reqs[r].stream = "live"}

\* C1: in every reachable state, every (connection, request id) has at most
\* one stream that is subscribed and neither cancelled nor terminated.
C1_AtMostOneLiveStream ==
    \A c \in Conns : \A id \in Ids : Cardinality(LiveStreams(c, id)) <= 1

\* C1 witness: a duplicate subscription request has been handled while the
\* stream of the first one is live.
C1_Witness ==
    \E r \in DOMAIN reqs :
        /\ reqs[r].result = "dup"
        /\ reqs[r].stream = "cancelled"
        /\ LiveStreams(reqs[r].conn, reqs[r].id) # {}

\* C2 (as claimed): when a subscription request meets a registered id, the
\* registered (first) subscription's unsubscribe is invoked in the step
\* that fails the new request.
C2_FirstSubscriptionStopped ==
    [][\A r \in DOMAIN reqs :
          (reqs[r].result # "dup" /\ reqs'[r].result = "dup") =>
             LET old == clientSubscriptions[reqs[r].conn][reqs[r].id]
             IN  reqs'[old].unsub = reqs[old].unsub + 1]_vars

\* C3 (as claimed): the BAD_REQUEST error is the only response a duplicate
\* subscription request causes.
C3_OnlyErrorResponse ==
    \A r \in DOMAIN reqs :
        (reqs[r].result = "dup" /\ reqs[r].pc = "done") =>
           RespBy(r) = <<ErrorResp(reqs[r].id, "BAD_REQUEST", r)>>

\* C3 (amended): a duplicate subscription request answered on an open
\* connection gets no `started`; after whatever its own stream emitted
\* inside subscribe(), it causes exactly a `stopped` response and then a
\* BAD_REQUEST error response, both with its id.  On a closed connection
\* it causes no response.
C3_DuplicateStoppedThenError ==
    \A r \in DOMAIN reqs :
        reqs[r].result = "dup" =>
           /\ reqs[r].pc = "done" =>
                \E ev \in {"none", "next", "error", "complete"} :
                   RespBy(r) = StreamResp(reqs[r].id, ev, r)
                                 \o <<StoppedResp(reqs[r].id, r),
                                      ErrorResp(reqs[r].id, "BAD_REQUEST", r)>>
           /\ reqs[r].pc # "done" => RespBy(r) = <<>>
           /\ ~reqs[r].registered

\* C3 witness: a duplicate subscription request has been answered.
C3_Witness ==
    \E r \in DOMAIN reqs : reqs[r].result = "dup" /\ reqs[r].pc = "done"

Settled(c) ==
    /\ Idle
    /\ \A r \in DOMAIN reqs :
          reqs[r].conn = c => reqs[r].pc \in {"done", "rejected"}

\* C4 (as claimed): once a connection is closed and its requests have run
\* to completion, its clientSubscriptions is empty and every subscription
\* ever registered on it has had unsubscribe invoked exactly once.
C4_CloseUnsubscribesAll ==
    \A c \in Conns :
        (Closed(c) /\ Settled(c)) =>
           /\ \A i \in Ids : clientSubscriptions[c][i] = NoSub
           /\ \A r \in DOMAIN reqs :
                 (reqs[r].conn = c /\ reqs[r].registered) => reqs[r].unsub = 1

\* C5: the step that handles a subscription.stop envelope for id X, when a
\* subscription is registered under X, invokes its unsubscribe once, sends
\* one `stopped` response with id X and removes the mapping of X only; when
\* none is registered it sends nothing, invokes nothing and leaves the map
\* as it is.  Either way the envelope is done in that step, whatever the
\* state of the context promise.
C5_StopEffect ==
    [][(cur # NoCur /\ Len(reqs') = Len(reqs) + 1
          /\ reqs'[Len(reqs')].method = "subscription.stop") =>
        LET n == Len(reqs')
            c == reqs'[n].conn
            x == reqs'[n].id
            sub == clientSubscriptions[c][x]
        IN  /\ reqs'[n].pc = "done"
            /\ \A y \in Ids \ {x} :
                  /\ clientSubscriptions'[c][y] = clientSubscriptions[c][y]
                  /\ sent'[c][y] = sent[c][y]
            /\ sent'[c][NullId] = sent[c][NullId]
            /\ UNCHANGED <<ctxWaiters, microtasks>>
            /\ IF sub # NoSub
               THEN /\ reqs'[sub].unsub = reqs[sub].unsub + 1
                    /\ \A r \in DOMAIN reqs : r # sub => reqs'[r] = reqs[r]
                    /\ sent'[c][x] = Append(sent[c][x], StoppedResp(x, n))
                    /\ clientSubscriptions'[c][x] = NoSub
               ELSE /\ \A r \in DOMAIN reqs : reqs'[r] = reqs[r]
                    /\ sent' = sent
                    /\ clientSubscriptions' = clientSubscriptions]_vars

\* C5 witness: a stop has found its subscription and has been answered, and
\* another stop has found none.
C5_Witness ==
    /\ \E r \in DOMAIN reqs :
          /\ reqs[r].result = "stopped"
          /\ RespBy(r) = <<StoppedResp(reqs[r].id, r)>>
          /\ clientSubscriptions[reqs[r].conn][reqs[r].id] = NoSub

\* C5 witness of the other case: a stop that found nothing registered, on a
\* connection whose context is still pending.
C5_WitnessNoop ==
    \E r \in DOMAIN reqs :
        reqs[r].result = "noop" /\ ctxPromise[reqs[r].conn] = "pending"

\* C6 (as claimed): when the stream of a registered subscription terminates
\* by itself, its mapping is removed.
C6_TerminationRemovesMapping ==
    [][\A r \in DOMAIN reqs :
          (/\ reqs[r].method = "subscription"
           /\ reqs[r].registered
           /\ clientSubscriptions[reqs[r].conn][reqs[r].id] = r
           /\ reqs[r].stream = "live"
           /\ reqs'[r].stream = "done") =>
             clientSubscriptions'[reqs[r].conn][reqs[r].id] # r]_vars

\* C7 (as claimed): every response produced by a stream (data, stopped,
\* error) comes after the `started` response of its request.
C7_StartedBeforeStreamEvents ==
    \A c \in Conns : \A id \in Ids : \A i \in DOMAIN sent[c][id] :
        sent[c][id][i].src = "stream" =>
           \E j \in 1..(i - 1) :
              /\ sent[c][id][j].type = "started"
              /\ sent[c][id][j].req = sent[c][id][i].req

\* C8: callProcedure is only ever called after the context promise has
\* fulfilled, and with the resolved context.
C8_DispatchGetsResolvedCtx ==
    \A r \in DOMAIN reqs :
        reqs[r].ctxArg # "none" =>
           /\ reqs[r].ctxArg = "CTX"
           /\ ctxPromise[reqs[r].conn] = "fulfilled"

\* C8 witness: a request that arrived while the context was pending has
\* called callProcedure (the continuation of open that follows the one that
\* stored the context is still queued: the request was a waiter of the
\* promise).
C8_Witness ==
    \E r \in DOMAIN reqs :
        /\ reqs[r].ctxArg = "CTX"
        /\ microtasks = <<Task("add", reqs[r].conn, 0)>>

ContextErrors(c) ==
    SelectSeq(sent[c][NullId], LAMBDA x : x.code = "CONTEXT")

\* C9 (as claimed): a connection whose context failed gets exactly one
\* null-id error response, the server ends it when the grace timer fires,
\* and end() is never called on a connection that has closed.
C9_FailedContextEndsOnce ==
    \A c \in Conns :
        /\ timer[c] # "none" => Len(ContextErrors(c)) = 1
        /\ timer[c] = "fired" => Closed(c)
        /\ "end" \notin misuse[c]

\* C10: on a connection whose context promise rejected, a call (a non-stop
\* request with a non-null id) never reaches callProcedure and registers
\* no subscription; once handled on the open connection it has caused
\* exactly one response, the error with its id and the context failure; it
\* is left unanswered only if the connection closed first.
C10_FailedContextAnswers ==
    \A r \in DOMAIN reqs :
        (IsCall(r) /\ ctxPromise[reqs[r].conn] = "rejected") =>
           /\ reqs[r].ctxArg = "none"
           /\ reqs[r].stream = "none"
           /\ \A i \in Ids : clientSubscriptions[reqs[r].conn][i] = NoSub
           /\ reqs[r].pc \in {"awaitCtx", "done", "rejected"}
           /\ reqs[r].pc = "awaitCtx" => ~Idle
           /\ reqs[r].pc = "rejected" => Closed(reqs[r].conn) /\ RespBy(r) = <<>>
           /\ reqs[r].pc = "done" =>
                 RespBy(r) = <<ErrorResp(reqs[r].id, "CONTEXT", r)>>

\* C10 witness: a subscription request on a connection whose context failed
\* has been answered.
C10_Witness ==
    \E r \in DOMAIN reqs :
        /\ reqs[r].method = "subscription"
        /\ ctxPromise[reqs[r].conn] = "rejected"
        /\ reqs[r].pc = "done"

\* The responses request r has caused in the state a step leads to.
RespByNext(r) ==
    SelectSeq(sent'[reqs'[r].conn][reqs'[r].id], LAMBDA x : x.req = r)

\* C11: a query or mutation request with an id causes no response while
\* it is being handled and exactly one once it is handled: the `data`
\* response with its id when the procedure returned, the error response
\* with its id when the procedure threw or the context failed (none, if
\* the connection closed first).  It never causes `started` or `stopped`,
\* creates no stream, and no step of it changes clientSubscriptions.
C11_QueryOneResponse ==
    [][\A r \in DOMAIN reqs' :
          (reqs'[r].method = "query" /\ reqs'[r].id # NullId) =>
             LET id == reqs'[r].id
                 rec == reqs'[r]
             IN  /\ (r \notin DOMAIN reqs \/ reqs[r] # rec) =>
                       clientSubscriptions' = clientSubscriptions
                 /\ rec.stream = "none" /\ ~rec.registered
                 /\ rec.pc \in {"awaitCtx", "awaitCall"} => RespByNext(r) = <<>>
                 /\ rec.pc = "rejected" =>
                       phase'[rec.conn] = "closed" /\ RespByNext(r) = <<>>
                 /\ rec.pc = "done" =>
                       CASE rec.result = "data" ->
                              RespByNext(r) = <<Resp(id, "data", "", r, "handler")>>
                         [] rec.result = "procerr" ->
                              RespByNext(r) = <<ErrorResp(id, "PROCEDURE", r)>>
                         [] rec.result = "ctxerr" ->
                              RespByNext(r) = <<ErrorResp(id, "CONTEXT", r)>>
                         [] OTHER -> FALSE]_vars

\* C11 witness: one query has been answered with `data` and another with
\* an error, while a subscription is registered on the connection.
C11_Witness ==
    \E r, s \in DOMAIN reqs :
        /\ reqs[r].method = "query" /\ reqs[s].method = "query"
        /\ reqs[r].conn = reqs[s].conn
        /\ reqs[r].result = "data" /\ reqs[r].pc = "done"
        /\ reqs[s].result = "procerr" /\ reqs[s].pc = "done"

\* C12: a request with an id whose procedure threw, or whose subscription
\* procedure returned something that is no observable, has caused exactly
\* one response when the failure met an open connection: the error
\* response with the request's id (INTERNAL_SERVER_ERROR for the
\* non-observable).  It is left without a response only if the connection
\* had closed before.
C12_DispatchFailureAnswered ==
    \A r \in DOMAIN reqs :
        reqs[r].result \in {"procerr", "notobs"} =>
           /\ reqs[r].id # NullId
           /\ reqs[r].pc \in {"done", "rejected"}
           /\ reqs[r].pc = "rejected" =>
                 Closed(reqs[r].conn) /\ RespBy(r) = <<>>
           /\ reqs[r].pc = "done" =>
                 RespBy(r) = <<ErrorResp(reqs[r].id,
                                         IF reqs[r].result = "notobs"
                                         THEN "INTERNAL_SERVER_ERROR"
                                         ELSE "PROCEDURE", r)>>
           /\ reqs[r].result = "notobs" => reqs[r].method = "subscription"

\* C12 witness: a subscription procedure returned a non-observable and a
\* procedure threw; both requests have been answered.
C12_Witness ==
    \E r, s \in DOMAIN reqs :
        /\ reqs[r].result = "notobs" /\ reqs[r].pc = "done"
        /\ reqs[s].result = "procerr" /\ reqs[s].pc = "done"

\* C13: the step that receives a message which fails to decode sends
\* exactly one PARSE_ERROR response with the null id on that connection and
\* nothing else; it hands no envelope to handleRequest, leaves no batch to
\* be handled, queues no continuation and leaves every clientSubscriptions
\* as it is.
C13_UndecodableMessage ==
    [][(nmsg' = nmsg + 1 /\ (cur' = NoCur \/ sent' # sent)) =>
          /\ \E c \in Conns :
                /\ phase[c] = "open"
                /\ sent' = [sent EXCEPT ![c][NullId] =
                              Append(@, Resp(NullId, "error", "PARSE_ERROR", 0, "parse"))]
          /\ cur' = NoCur
          /\ UNCHANGED <<reqs, clientSubscriptions, microtasks, ctxWaiters,
                         misuse, phase>>]_vars

\* C13 witness: an undecodable message has been answered on a connection
\* that has a subscription registered.
C13_Witness ==
    \E c \in Conns :
        /\ ParseFailures(c) = 1
        /\ \E i \in Ids : clientSubscriptions[c][i] # NoSub

\* C14 (as claimed): allClients holds no connection whose close event has
\* happened.
C14_NoClosedInAllClients ==
    \A i \in DOMAIN allClients : ~Closed(allClients[i])

\* C15 (as claimed): a call of broadcastReconnectNotification sends the
\* reconnect notification once to every connection whose open event has
\* happened and whose close event has not, to no other connection, and
\* leaves every clientSubscriptions as it is.
C15_BroadcastReachesOpen ==
    [][nbroadcast' = nbroadcast + 1 =>
          /\ \A c \in Conns :
                sent'[c][NullId] =
                   IF phase[c] = "open"
                   THEN Append(sent[c][NullId], Reconnect)
                   ELSE sent[c][NullId]
          /\ clientSubscriptions' = clientSubscriptions]_vars

\* The bytes of the first n chunks received.
RECURSIVE Total(_)
Total(n) == IF n = 0 THEN 0 ELSE Total(n - 1) + received[n].len

\* The request body is complete: the last chunk has been received.
Complete == received # <<>> /\ received[Len(received)].last

\* The first chunk with which the body exceeds max bytes, or 0.
FirstOver(max) ==
    IF \E k \in DOMAIN received : Total(k) > max
    THEN CHOOSE k \in DOMAIN received :
            Total(k) > max /\ \A j \in 1..(k - 1) : Total(j) <= max
    ELSE 0

Upto(n) == [i \in 1..n |-> i]

\* C16: while the request body stays within the configured maximum (or
\* there is none) and the consumer has not cancelled it, the chunks the
\* consumer has read followed by those waiting to be read are exactly the
\* chunks received, in order; once the last chunk is in, the stream closes
\* behind them (it is closed when none waits to be read, and it closes
\* after the last one is read).  The exception is a first chunk that is
\* empty and last: it closes the stream and no chunk is delivered.
C16_BodyDeliversChunks ==
    (/\ body \notin {"none", "cancelled"}
     /\ maxBodySize = Null \/ Total(Len(received)) <= maxBodySize) =>
        LET n == Len(received)
            emptyBody == n = 1 /\ received[1].len = 0
        IN  /\ late = {}
            /\ consumed \o queue = IF emptyBody THEN <<>> ELSE Upto(n)
            /\ Complete => body = IF queue = <<>> THEN "closed" ELSE "closing"
            /\ (~Complete /\ transport = "open") => body = "readable"

\* C16 witness: a body of two chunks within the maximum has been read to
\* its end and the stream is closed.
C16_Witness ==
    /\ maxBodySize = 2
    /\ Len(received) = 2
    /\ Complete
    /\ consumed = <<1, 2>>
    /\ body = "closed"
    /\ transport = "open"

\* C17 (as claimed): for every configured maximum other than null, once a
\* chunk has taken the body over the maximum the stream is errored, and
\* neither that chunk nor a later one is delivered; what was delivered is
\* a run of the earlier chunks in order.
C17_LimitErrorsStream ==
    maxBodySize # Null =>
       LET k == FirstOver(maxBodySize)
       IN  k # 0 =>
              /\ body = "errored"
              /\ queue = <<>>
              /\ \E n \in 0..(k - 1) : consumed = Upto(n)

\* C18 (as claimed): no chunk is enqueued, no close attempted and no error
\* signalled on the stream controller once the stream has been closed,
\* errored or cancelled.
C18_NoLateControllerCall ==
    late = {}

\* C19 (as claimed): whenever the transport has reported an abort,
\* res.aborted is true and the Request's signal is aborted.
C19_AbortSetsFlag ==
    transport = "aborted" => aborted /\ signalAborted

\* C20: a step that ends with res.aborted set makes no writeStatus,
\* writeHeader, write, end or endWithoutBody call on the native exchange,
\* be it the step in which the flag is set or any later step, such as the
\* continuation of a send function that was awaiting the response body or
\* its next chunk when the abort came.
C20_NoCallOnceAborted ==
    [][aborted' =>
          /\ wire' = wire
          /\ discarded' \cap SendCalls = discarded \cap SendCalls]_vars

\* C20 witness: the streaming send function had written a chunk and was
\* awaiting the next one when the abort set the flag; it has returned.
C20_Witness ==
    /\ sendFn = "uWsSendResponseStreamed"
    /\ aborted
    /\ sendPc = "returned"
    /\ wire = Headers \o <<Call("write", 1)>>

\* The write calls among the calls w.
Writes(w) == SelectSeq(w, LAMBDA x : x.call = "write")

\* The calls among w that end the exchange.
Ends(w) == SelectSeq(w, LAMBDA x : x.call \in {"end", "endWithoutBody"})

\* C21 (as claimed): while a chunk whose write was reported as failed waits
\* for the transport to become writable, the pump reads no chunk and makes
\* no call on the exchange; and the writes made on the exchange are the
\* reader's chunks in order, each once.
C21_BackpressurePausesPump ==
    [][/\ (onWritable # 0 /\ nwritable' = nwritable) =>
             (respRead' = respRead /\ wire' = wire)
       /\ \A i \in DOMAIN Writes(wire') : Writes(wire')[i].chunk = i]_vars

\* C22 (as claimed): the exchange is ended at most once, no end is
\* attempted on an exchange that was aborted (or ended), and when a send
\* function has returned on an exchange that was not aborted, the exchange
\* has been ended once, by its last call.
C22_EndedOnce ==
    /\ Len(Ends(wire)) <= 1
    /\ discarded \cap {"end", "endWithoutBody"} = {}
    /\ (sendPc = "returned" /\ transport # "aborted") =>
          /\ Len(Ends(wire)) = 1
          /\ wire[Len(wire)].call \in {"end", "endWithoutBody"}

\* C23 (as claimed): a streaming send function that is awaiting the reader
\* when the exchange is aborted returns (or throws), whether or not the
\* reader yields again.
C23_AbortEndsPump ==
    (transport = "aborted" /\ sendPc = "awaitRead") ~>
        (sendPc \in {"returned", "threw"})

\* The header writes on the wire for header k, as the values each carries.
Written(k) ==
    LET ws == SelectSeq(wire, LAMBDA x : x.call = "writeHeader"
                                           /\ x.chunk.key = k)
    IN  [i \in DOMAIN ws |-> ws[i].chunk.value]

\* Status first, only header writes next, end last: and the wire of
\* uWsSendResponse is never seen with a part of them (one cork region).
StatusHeadersEnd ==
    /\ Len(wire) >= 2
    /\ wire[1].call = "writeStatus"
    /\ wire[Len(wire)].call = "end"
    /\ \A i \in 2..(Len(wire) - 1) : wire[i].call = "writeHeader"

\* C24 (as stated): for a non-aborted exchange uWsSendResponse writes the
\* status, then one header write per header value of the Response, then the
\* body with end, all in one cork region.
C24_OneWritePerValue ==
    (sendFn = "uWsSendResponse" /\ wire # <<>>) =>
        /\ StatusHeadersEnd
        /\ \A n \in DOMAIN HeaderNames :
              LET k == HeaderNames[n]
              IN  Written(k) = [i \in DOMAIN Values(respHeaders, k) |->
                                   <<Values(respHeaders, k)[i]>>]

\* C24 (amended): for a non-aborted exchange uWsSendResponse writes the
\* status, then the headers, then the body with end, all in one cork region;
\* every set-cookie value has a header write of its own, and the values of
\* any other repeated header reach the client in one write, combined in
\* their order.
C24_HeadersInOneCork ==
    (sendFn = "uWsSendResponse" /\ wire # <<>>) =>
        /\ StatusHeadersEnd
        /\ \A n \in DOMAIN HeaderNames :
              LET k == HeaderNames[n]
                  vs == Values(respHeaders, k)
              IN  IF k = "set-cookie"
                  THEN Written(k) = [i \in DOMAIN vs |-> <<vs[i]>>]
                  ELSE Written(k) = IF vs = <<>> THEN <<>> ELSE <<vs>>

C24_Witness ==
    /\ sendFn = "uWsSendResponse"
    /\ sendPc = "returned"
    /\ ~aborted
    /\ Len(Values(respHeaders, "set-cookie")) = 2
    /\ Len(wire) = 5

\* The requests of connection c that were dispatched with a context.
Dispatched(c) ==
    {r \in DOMAIN reqs : reqs[r].conn = c /\ reqs[r].ctxArg # "none"}

\* C25: createContext is called once for a connection, in upgrade, and not
\* again for its messages; the requests of the connection are all dispatched
\* with the one context that call gave.
C25_ContextCreatedOnce ==
    \A c \in Conns :
        /\ ctxCalls[c] = IF phase[c] = "none" THEN 0 ELSE 1
        /\ \A r \in Dispatched(c) : reqs[r].ctxArg = ctx[c]

C25_Witness ==
    \E c \in Conns :
        /\ ctxCalls[c] = 1
        /\ Cardinality(Dispatched(c)) = 2
        /\ \A r \in Dispatched(c) : reqs[r].ctxArg = "CTX"

\* C26: after a `stopped` or `error` response for id X on a connection, no
\* `data` response of a stream is sent with id X on it unless a `started`
\* response for X was sent in between.
C26_NoDataAfterStopped ==
    \A c \in Conns : \A id \in Ids :
        \A i \in DOMAIN sent[c][id] : \A j \in DOMAIN sent[c][id] :
            (/\ i < j
             /\ sent[c][id][i].type \in {"stopped", "error"}
             /\ sent[c][id][j].type = "data"
             /\ sent[c][id][j].src = "stream") =>
                \E n \in (i + 1)..(j - 1) : sent[c][id][n].type = "started"

\* Request r has run to its end: nothing of its handler is left to run.
Processed(r) == reqs[r].pc = "done"

\* C29: when a subscription request for id X and a later stop for X of the
\* same connection have both been processed, no subscription is registered
\* under X and the stream of the request is not subscribed.
C29_StopAfterSubscribe ==
    \A r \in DOMAIN reqs : \A t \in DOMAIN reqs :
        (/\ r < t
         /\ reqs[r].conn = reqs[t].conn
         /\ reqs[r].id = reqs[t].id
         /\ reqs[r].method = "subscription"
         /\ reqs[t].method = "subscription.stop"
         /\ Processed(r) /\ Processed(t)
         /\ phase[reqs[r].conn] = "open"
         /\ Idle) =>
            /\ clientSubscriptions[reqs[r].conn][reqs[r].id] = NoSub
            /\ reqs[r].stream # "live"

\* C30: no send or end is invoked on the socket of a closed connection.
C30_NoCallAfterClose == \A c \in Conns : misuse[c] = {}

\* C27: the result of getPostBody is settled once and the first outcome
\* wins: an abort while it is pending settles it with CLIENT_CLOSED_REQUEST,
\* every abort sets the aborted flag, and no callback that runs after it
\* was settled changes it.
C27_SettledOnce ==
    [][/\ result.state = "settled" => result' = result
       /\ (transport = "open" /\ transport' = "aborted") =>
             /\ aborted'
             /\ result.state = "pending" =>
                   result' = ErrResult("CLIENT_CLOSED_REQUEST")]_vars

\* An abort in the middle of the body.
C27_Witness ==
    /\ received # <<>>
    /\ ~Complete
    /\ transport = "aborted"
    /\ aborted
    /\ result = ErrResult("CLIENT_CLOSED_REQUEST")

\* The chunks received up to the n-th, concatenated.
RECURSIVE Concat(_)
Concat(n) ==
    IF n = 0 THEN <<>> ELSE Concat(n - 1) \o Bytes(n, received[n].len)

\* C28: with a maxBodySize configured, a complete body of at most that many
\* bytes gives ok with the concatenation of its chunks, a larger one gives
\* PAYLOAD_TOO_LARGE, and no chunk callback throws.
C28_LimitedBody ==
    (result.state # "none" /\ httpMethod = "POST"
        /\ maxBodySize # Null /\ maxBodySize # 0) =>
        /\ threw = {}
        /\ Complete =>
              result = IF Total(Len(received)) <= maxBodySize
                       THEN OkResult(BufferToString(Concat(Len(received))))
                       ELSE ErrResult("PAYLOAD_TOO_LARGE")

\* The terminal responses (`stopped`, `error`) that follow the `started`
\* at position n of the responses rs, up to the next `started`.
TerminalsAfter(rs, n) ==
    {i \in (n + 1)..Len(rs) :
        /\ rs[i].type \in {"stopped", "error"}
        /\ \A j \in (n + 1)..(i - 1) : rs[j].type # "started"}

\* C31: a subscription that was answered `started` gets at most one terminal
\* response with its id before the next `started` for that id.
C31_OneTerminalResponse ==
    \A c \in Conns : \A id \in Ids : \A n \in DOMAIN sent[c][id] :
        sent[c][id][n].type = "started" =>
            Cardinality(TerminalsAfter(sent[c][id], n)) <= 1

\* C32: a null-id PARSE_ERROR response is sent for a message only when the
\* message failed to decode, never for a message of which an envelope was
\* handed to handleRequest.
C32_ParseErrorOnlyUndecodable ==
    \A c \in Conns : \A i \in DOMAIN sent[c][NullId] :
        sent[c][NullId][i].code = "PARSE_ERROR" =>
            sent[c][NullId][i].src = "parse"

====
